---- MODULE Spec2Model ----
(***************************************************************************)
(* Model of the INI inventory parser, lib/ansible/inventory/ini.py         *)
(* (class InventoryParser).  One behaviour is one construction of          *)
(* InventoryParser on one file: the lines are read, _parse scans them one  *)
(* per step, checks pending_declaration after the scan, and __init__ then  *)
(* attaches the top-level groups to 'all'.                                 *)
(*                                                                         *)
(* Text is a sequence of one-character strings, so that the two regular    *)
(* expressions of _compile_patterns are computed on the characters.        *)
(* Group objects live in `heap` (the index is the object's identity);      *)
(* `groups` is the dict self.groups, from name to object.                  *)
(***************************************************************************)
EXTENDS Integers, Sequences, FiniteSets, TLC

\* ------------------------------------------------------------------ bounds

\* Longest input file, in lines.
MaxLines == 4

\* ------------------------------------------------------------------ text

\* Python's None (the value of an unmatched regex group).
None == "None"

\* The characters \s matches, among those the inputs use.
Whitespace == {" ", "\t", "\n", "\r"}

\* The characters the class [^:\]\s] excludes.
NameStop == {":", "]"} \cup Whitespace

Range(f) == {f[k] : k \in DOMAIN f}

StartsWithAt(s, p, prefix) ==
    /\ p + Len(prefix) - 1 <= Len(s)
    /\ \A k \in 1..Len(prefix) : s[p + k - 1] = prefix[k]

\* str.startswith
startswith(s, prefix) == StartsWithAt(s, 1, prefix)

\* Length of the longest run of [^:\]\s] characters of s that starts at p.
NameRun(s, p) ==
    CHOOSE n \in 0..(Len(s) - p + 1) :
        /\ \A k \in p..(p + n - 1) : s[k] \notin NameStop
        /\ (p + n > Len(s) \/ s[p + n] \in NameStop)

TagVars == <<":", "v", "a", "r", "s", "]">>
TagChildren == <<":", "c", "h", "i", "l", "d", "r", "e", "n", "]">>

\* patterns['section'].match(line): ^\[ ([^:\]\s]+) (?::(vars|children))? \] \s*#*
\* The result is m.groups(), or matched = FALSE for no match.  The greedy
\* name run is the only split that can match: the character after the name
\* has to be ':' or ']', which the name's class excludes.  The tail \s*#*
\* matches the empty string, so whatever follows ']' is accepted.
patterns_section(line) ==
    LET n == NameRun(line, 2)
        q == 2 + n
        nomatch == [matched |-> FALSE, section |-> <<>>, state |-> None]
    IN  IF ~startswith(line, <<"[">>) \/ n = 0 THEN nomatch
        ELSE IF StartsWithAt(line, q, <<"]">>)
             THEN [matched |-> TRUE, section |-> SubSeq(line, 2, q - 1), state |-> None]
        ELSE IF StartsWithAt(line, q, TagVars)
             THEN [matched |-> TRUE, section |-> SubSeq(line, 2, q - 1), state |-> "vars"]
        ELSE IF StartsWithAt(line, q, TagChildren)
             THEN [matched |-> TRUE, section |-> SubSeq(line, 2, q - 1), state |-> "children"]
        ELSE nomatch

\* patterns['groupname'].match(line): ^([^:\]\s]+) ; m.group(0) is the run.
patterns_groupname(line) ==
    LET n == NameRun(line, 1)
    IN  IF n = 0 THEN [matched |-> FALSE, name |-> <<>>]
        ELSE [matched |-> TRUE, name |-> SubSeq(line, 1, n)]

\* str.strip(): without leading and trailing whitespace.
strip(s) ==
    LET keep == {k \in 1..Len(s) : s[k] \notin Whitespace}
    IN  IF keep = {} THEN <<>>
        ELSE SubSeq(s, CHOOSE a \in keep : \A k \in keep : a <= k,
                       CHOOSE b \in keep : \A k \in keep : k <= b)

Digits == <<"0", "1", "2", "3", "4", "5", "6", "7", "8", "9">>
DigitOf(c) == (CHOOSE d \in 1..10 : Digits[d] = c) - 1

RECURSIVE NumberIn(_, _)
NumberIn(s, base) ==
    IF s = <<>> THEN 0
    ELSE NumberIn(SubSeq(s, 1, Len(s) - 1), base) * base + DigitOf(s[Len(s)])

\* A value of a variable: a literal's value or text.
IntValue(n) == [t |-> "int", n |-> n, b |-> FALSE, s |-> <<>>]
BoolValue(b) == [t |-> "bool", n |-> 0, b |-> b, s |-> <<>>]
StrValue(s) == [t |-> "str", n |-> 0, b |-> FALSE, s |-> s]

\* The index of the first '#' of v at or after k that is outside a quoted
\* string (q is the quote that is open at k, "" for none), 0 for none.
RECURSIVE CommentStart(_, _, _)
CommentStart(v, k, q) ==
    IF k > Len(v) THEN 0
    ELSE IF q = "" /\ v[k] = "#" THEN k
    ELSE IF q = "" /\ v[k] \in {"'", "\""} THEN CommentStart(v, k + 1, v[k])
    ELSE IF q # "" /\ v[k] = q THEN CommentStart(v, k + 1, "")
    ELSE CommentStart(v, k + 1, q)

\* The source text v without the trailing comment the tokenizer drops, and
\* without the whitespace before it.
Uncommented(v) ==
    IF CommentStart(v, 1, "") = 0 THEN v
    ELSE strip(SubSeq(v, 1, CommentStart(v, 1, "") - 1))

\* The literal a comment-free text is: a decimal or (leading 0) octal
\* integer, True, False, a quoted string without escapes.  ok = FALSE stands
\* for the ValueError or SyntaxError of anything else.
literal_of(v) ==
    LET isDigits == v # <<>> /\ \A k \in 1..Len(v) : v[k] \in Range(Digits)
        quoted == /\ Len(v) >= 2
                  /\ v[1] \in {"'", "\""}
                  /\ v[Len(v)] = v[1]
                  /\ \A k \in 2..(Len(v) - 1) : v[k] \notin {v[1], "\\"}
    IN  IF isDigits /\ (Len(v) = 1 \/ v[1] # "0")
        THEN [ok |-> TRUE, value |-> IntValue(NumberIn(v, 10))]
        ELSE IF isDigits /\ \A k \in 1..Len(v) : DigitOf(v[k]) < 8
        THEN [ok |-> TRUE, value |-> IntValue(NumberIn(v, 8))]
        ELSE IF v = <<"T", "r", "u", "e">> THEN [ok |-> TRUE, value |-> BoolValue(TRUE)]
        ELSE IF v = <<"F", "a", "l", "s", "e">> THEN [ok |-> TRUE, value |-> BoolValue(FALSE)]
        ELSE IF quoted THEN [ok |-> TRUE, value |-> StrValue(SubSeq(v, 2, Len(v) - 1))]
        ELSE [ok |-> FALSE, value |-> StrValue(v)]

\* ast.literal_eval(v) for the literals the inputs can hold.
literal_eval(v) == literal_of(Uncommented(v))

\* Mutant of parse_value: the test for '#' is left out.
parse_value_unguarded(v) ==
    IF literal_eval(v).ok THEN literal_eval(v).value ELSE StrValue(v)

\* _parse_value (201-214): a value holding '#' is left as text; otherwise
\* it is the literal it evaluates to, or the text when it is no literal.
parse_value(v) ==
    IF "#" \notin Range(v) /\ literal_eval(v).ok
    THEN literal_eval(v).value
    ELSE StrValue(v)

\* The body of _parse_variable_definition (195-199): split on the first '='
\* and strip both sides.  The raise on line 199 names `i`, which the method
\* does not have, so a line without '=' ends in NameError.
parse_variable_definition(l) ==
    LET eqs == {k \in 1..Len(l) : l[k] = "="}
        first == CHOOSE k \in eqs : \A j \in eqs : k <= j
    IN  IF eqs # {}
        THEN [raised |-> "none",
              k |-> strip(SubSeq(l, 1, first - 1)),
              v |-> parse_value(strip(SubSeq(l, first + 1, Len(l))))]
        ELSE [raised |-> "NameError", k |-> <<>>, v |-> StrValue(<<>>)]

\* ------------------------------------------------------------------ names

all == <<"a", "l", "l">>
ungrouped == <<"u", "n", "g", "r", "o", "u", "p", "e", "d">>
filename == "hosts"

\* ------------------------------------------------------------------ input

Blank == <<"\n">>
Comment == <<"#", "c", "\n">>
HeaderA == <<"[", "a", "]", "\n">>
HeaderAVars == <<"[", "a", ":", "v", "a", "r", "s", "]", "\n">>
HeaderAChildren == <<"[", "a", ":", "c", "h", "i", "l", "d", "r", "e", "n", "]", "\n">>
HeaderB == <<"[", "b", "]", "\n">>
WordA == <<"a", "\n">>
WordB == <<"b", "\n">>
WordAll == <<"a", "l", "l", "\n">>
KeyValue == <<"k", "=", "1", "\n">>

\* The lines an input file is made of.
LineSet ==
    {Blank, Comment, HeaderA, HeaderAVars, HeaderAChildren, HeaderB,
     WordA, WordB, WordAll, KeyValue}

RECURSIVE SeqsUpTo(_, _)
SeqsUpTo(S, n) ==
    IF n = 0 THEN {<<>>}
    ELSE LET shorter == SeqsUpTo(S, n - 1)
         IN  shorter \cup {Append(s, x) : s \in {t \in shorter : Len(t) = n - 1}, x \in S}

Files == SeqsUpTo(LineSet, MaxLines)

Space == <<" ", "\n">>
SemiComment == <<";", "c", "\n">>
BadHeader == <<"[", "b", "a", "d", ":", "o", "o", "p", "s", "]", "\n">>

\* The lines of the files that hold whitespace-only lines and headers with
\* an unsupported tag.
LineSetMalformed ==
    {Space, SemiComment, BadHeader, HeaderA, HeaderAVars, HeaderAChildren,
     WordB, KeyValue}

FilesMalformed == SeqsUpTo(LineSetMalformed, MaxLines)


\* ------------------------------------------------------------------ Group

\* Group(name=...): a new group has no children, parents, variables or hosts.
Group(name) ==
    [name |-> name, child_groups |-> <<>>, parent_groups |-> <<>>,
     vars |-> <<>>, hosts |-> <<>>]

RECURSIVE AncestorsFrom(_, _, _)
AncestorsFrom(h, frontier, seen) ==
    LET next == UNION {Range(h[x].parent_groups) : x \in frontier} \ seen
    IN  IF next = {} THEN seen ELSE AncestorsFrom(h, next, seen \cup next)

\* The groups from which `id` is reachable over child edges.
Ancestors(h, id) == AncestorsFrom(h, {id}, {})

RECURSIVE DepthFrom(_, _, _)
DepthFrom(h, id, seen) ==
    LET ps == Range(h[id].parent_groups) \ seen
        ds == {DepthFrom(h, p, seen \cup {p}) : p \in ps}
    IN  IF ps = {} THEN 0 ELSE 1 + CHOOSE d \in ds : \A e \in ds : e <= d

\* group.depth: 0 for a group with no parent, otherwise 1 + the largest depth
\* of a parent (a parent chain that runs into a cycle is cut where it closes).
depth(h, id) ==
    IF h[id].parent_groups = <<>> THEN 0
    ELSE 1 + (LET ds == {DepthFrom(h, p, {id, p}) : p \in Range(h[id].parent_groups)}
              IN  CHOOSE d \in ds : \A e \in ds : e <= d)

\* Mutant of add_child_group: no cycle test under any setting.
add_child_group_unchecked(h, self, other, check) ==
    IF other \in Range(h[self].child_groups)
    THEN [heap |-> h, raised |-> FALSE]
    ELSE [heap |-> [h EXCEPT ![self].child_groups = Append(@, other),
                             ![other].parent_groups = Append(@, self)],
          raised |-> FALSE]

\* self.add_child_group(other), with `check` the strictness of the cycle
\* test: the edge is set in both directions; an edge that exists is left
\* alone; under the strict setting a child that is the group itself or one
\* of its ancestors is refused.
add_child_group(h, self, other, check) ==
    IF other \in Range(h[self].child_groups)
    THEN [heap |-> h, raised |-> FALSE]
    ELSE IF check /\ (other = self \/ other \in Ancestors(h, self))
    THEN [heap |-> h, raised |-> TRUE]
    ELSE [heap |-> [h EXCEPT ![self].child_groups = Append(@, other),
                             ![other].parent_groups = Append(@, self)],
          raised |-> FALSE]

\* ------------------------------------------------------------------ state

VARIABLES
    lines,                \* self.lines, the file as read by readlines()
    i,                    \* the line counter of _parse
    section,              \* the group the current section populates
    state,                \* the kind of the current section
    groups,               \* self.groups: name -> Group object (heap index)
    heap,                 \* the Group objects
    pending_declaration,  \* name -> [line, state, name, parent]
    strict,               \* whether add_child_group refuses cycles
    attached,             \* the groups __init__ passed to all.add_child_group
    pc,                   \* "scan", "finalize", "done" or "raised"
    error,                \* the exception that ended the construction
    value,                \* the argument v of a call of _parse_value
    coerced               \* what that call returned

vars == <<lines, i, section, state, groups, heap, pending_declaration,
          strict, attached, pc, error, value, coerced>>

\* No call of _parse_value has returned.
NotCoerced == [t |-> "unset", n |-> 0, b |-> FALSE, s |-> <<>>]

NoName == <<>>

\* An exception: its class, the source line that raised it (`at`, as in the
\* traceback), the message template and what the template is filled with.
Exception(type, at, msg, ln, expected, text, name, parent) ==
    [type |-> type, at |-> at, msg |-> msg, file |-> filename, line |-> ln,
     expected |-> expected, text |-> text, name |-> name, parent |-> parent]

NoError == Exception("none", 0, "", 0, "", <<>>, NoName, NoName)

\* Mutant of InitGroups: the registry starts with 'all' alone.
InitGroupsOnlyAll == (all :> 1)

\* self.groups after lines 47-50, with the two objects it holds.
InitGroups == (all :> 1) @@ (ungrouped :> 2)
InitHeap == <<Group(all), Group(ungrouped)>>

\* __init__ and _parse up to the loop (39-79), for whatever file was read.
Constructed ==
    /\ strict \in BOOLEAN
    /\ i = 0
    /\ section = ungrouped
    /\ state = ""
    /\ groups = InitGroups
    /\ heap = InitHeap
    /\ pending_declaration = <<>>
    /\ attached = <<>>
    /\ pc = "scan"
    /\ error = NoError
    /\ value = <<>>
    /\ coerced = NotCoerced

Init ==
    /\ lines \in Files
    /\ Constructed


\* ------------------------------------------------------------------ _parse

\* The line the loop body of _parse is about to handle (i is its number
\* once `i += 1` has run).
line == lines[i + 1]

Scanning == pc = "scan" /\ i < Len(lines)

\* Line 84: empty lines and comments.
Skipped(l) == l = <<"\n">> \/ startswith(l, <<";">>) \/ startswith(l, <<"#">>)

\* Mutant of Propagate: the exception is swallowed and the scan goes on.
PropagateSwallowed == "scan"

\* Where control is once an exception has left _parse and __init__.
Propagate == "raised"

Raise(e) == pc' = Propagate /\ error' = e

\* Mutant of DeclareSection: the header registers nothing.
DeclareSectionNever(g, h, pd, sec, st, ln) ==
    [groups |-> g, heap |-> h, pending |-> pd]

\* Mutant of DeclareSection: the header makes a new Group whether or not
\* the name is registered.
DeclareSectionAlways(g, h, pd, sec, st, ln) ==
    [groups |-> [n \in DOMAIN g \cup {sec} |-> IF n = sec THEN Len(h) + 1 ELSE g[n]],
     heap |-> Append(h, Group(sec)),
     pending |->
         IF st = "vars"
         THEN [n \in DOMAIN pd \cup {sec} |->
                  IF n = sec
                  THEN [line |-> ln, state |-> st, name |-> sec, parent |-> NoName]
                  ELSE pd[n]]
         ELSE pd]

\* Lines 102-110: what a section header does to the registries.
DeclareSection(g, h, pd, sec, st, ln) ==
    IF sec \notin DOMAIN g
    THEN [groups |-> g @@ (sec :> Len(h) + 1),
          heap |-> Append(h, Group(sec)),
          pending |->
              IF st = "vars"
              THEN pd @@ (sec :> [line |-> ln, state |-> st, name |-> sec, parent |-> NoName])
              ELSE IF sec \in DOMAIN pd
              THEN [n \in DOMAIN pd \ {sec} |-> pd[n]]
              ELSE pd]
    ELSE [groups |-> g, heap |-> h, pending |-> pd]

\* Mutant of ReferenceChild: the child is noted as pending whether or not it
\* is registered.
ReferenceChildAlwaysPending(g, h, pd, child, sec, st, ln) ==
    LET entry == [line |-> ln, state |-> st, name |-> child, parent |-> sec]
        noted == [n \in DOMAIN pd \cup {child} |-> IF n = child THEN entry ELSE pd[n]]
    IN  IF child \notin DOMAIN g
        THEN [groups |-> g @@ (child :> Len(h) + 1),
              heap |-> Append(h, Group(child)),
              pending |-> noted]
        ELSE [groups |-> g, heap |-> h, pending |-> noted]

\* Lines 138-143: a child name not in self.groups is registered and noted
\* in pending_declaration.
ReferenceChild(g, h, pd, child, sec, st, ln) ==
    IF child \notin DOMAIN g
    THEN [groups |-> g @@ (child :> Len(h) + 1),
          heap |-> Append(h, Group(child)),
          pending |-> pd @@ (child :> [line |-> ln, state |-> st, name |-> child, parent |-> sec])]
    ELSE [groups |-> g, heap |-> h, pending |-> pd]

\* Lines 84-85.
SkipLine ==
    /\ Scanning
    /\ Skipped(line)
    /\ i' = i + 1
    /\ UNCHANGED <<value, coerced, lines, section, state, groups, heap, pending_declaration,
                   strict, attached, pc, error>>

\* Lines 90-112.
SectionHeader ==
    /\ Scanning
    /\ ~Skipped(line)
    /\ patterns_section(line).matched
    /\ LET m == patterns_section(line)
           d == DeclareSection(groups, heap, pending_declaration,
                               m.section, m.state, i + 1)
       IN  /\ section' = m.section
           /\ state' = m.state
           /\ groups' = d.groups
           /\ heap' = d.heap
           /\ pending_declaration' = d.pending
    /\ i' = i + 1
    /\ UNCHANGED <<value, coerced, lines, strict, attached, pc, error>>

Definition == Scanning /\ ~Skipped(line) /\ ~patterns_section(line).matched

\* Lines 120-123 with _parse_host_definition (174-182), which raises for
\* every line it is given.
HostDefinition ==
    /\ Definition
    /\ state = ""
    /\ i' = i + 1
    /\ Raise(Exception("AnsibleError", 182, "Expected host definition, got", i + 1,
                       "", line, NoName, NoName))
    /\ UNCHANGED <<value, coerced, lines, section, state, groups, heap, pending_declaration,
                   strict, attached>>

\* Lines 127-129: the call passes (line, i) to _parse_variable_definition,
\* which is declared with the one parameter `line` (184), so the call itself
\* raises TypeError and neither 195-197 nor set_variable runs.
VariableDefinition ==
    /\ Definition
    /\ state = "vars"
    /\ i' = i + 1
    /\ Raise(Exception("TypeError", 128, "takes exactly 2 arguments (3 given)", 0,
                       "", <<>>, NoName, NoName))
    /\ UNCHANGED <<value, coerced, lines, section, state, groups, heap, pending_declaration,
                   strict, attached>>

\* Lines 135-145 with _parse_group_name (162-172).
ChildGroup ==
    /\ Definition
    /\ state = "children"
    /\ i' = i + 1
    /\ LET m == patterns_groupname(line)
           r == ReferenceChild(groups, heap, pending_declaration,
                               m.name, section, state, i + 1)
           a == add_child_group(r.heap, r.groups[section], r.groups[m.name], strict)
       IN  IF ~m.matched
           THEN /\ Raise(Exception("AnsibleError", 172, "Expected group name, got", i + 1,
                                   "", line, NoName, NoName))
                /\ UNCHANGED <<groups, heap, pending_declaration>>
           ELSE /\ groups' = r.groups
                /\ pending_declaration' = r.pending
                /\ heap' = a.heap
                /\ IF a.raised
                   THEN Raise(Exception("CycleError", 145, "", 0, "", <<>>, m.name, section))
                   ELSE UNCHANGED <<pc, error>>
    /\ UNCHANGED <<value, coerced, lines, section, state, strict, attached>>

\* Lines 148-150: the state is none of '', 'vars', 'children'.  A header
\* without a tag leaves state = None, and `None or 'host'` is 'host'.
UnknownDefinition ==
    /\ Definition
    /\ state \notin {"", "vars", "children"}
    /\ i' = i + 1
    /\ Raise(Exception("AnsibleError", 150, "Expected comment, section, or definition, got",
                       i + 1, IF state = None THEN "host" ELSE state, line,
                       NoName, NoName))
    /\ UNCHANGED <<value, coerced, lines, section, state, groups, heap, pending_declaration,
                   strict, attached>>

\* Lines 156-160, after the loop: the loop variable g is a key of the dict,
\* a string, so the first `g.state` raises AttributeError; with nothing
\* pending _parse returns.
EndOfScan ==
    /\ pc = "scan"
    /\ i = Len(lines)
    /\ IF DOMAIN pending_declaration # {}
       THEN \E g \in DOMAIN pending_declaration :
                Raise(Exception("AttributeError", 157, "'str' object has no attribute 'state'",
                                0, "", <<>>, NoName, NoName))
       ELSE pc' = "finalize" /\ UNCHANGED error
    /\ UNCHANGED <<value, coerced, lines, i, section, state, groups, heap, pending_declaration,
                   strict, attached>>

\* ------------------------------------------------------------------ __init__

\* Mutant of AttachTopLevel: the loop ends after the first group it attaches.
AttachFirstOnly(order, g, h, done, check) ==
    LET top == {k \in 1..Len(order) : depth(h, g[order[k]]) = 0 /\ order[k] # all}
        first == CHOOSE k \in top : \A j \in top : k <= j
        a == add_child_group(h, g[all], g[order[first]], check)
    IN  IF top = {} THEN [heap |-> h, attached |-> done, raised |-> FALSE]
        ELSE [heap |-> a.heap, attached |-> Append(done, order[first]), raised |-> a.raised]

\* Mutant of AttachTopLevel: 'ungrouped' is passed over like 'all'.
RECURSIVE AttachSkippingUngrouped(_, _, _, _, _)
AttachSkippingUngrouped(order, g, h, done, check) ==
    IF order = <<>> THEN [heap |-> h, attached |-> done, raised |-> FALSE]
    ELSE LET name == Head(order)
             a == add_child_group(h, g[all], g[name], check)
         IN  IF depth(h, g[name]) # 0 \/ name \in {all, ungrouped}
             THEN AttachSkippingUngrouped(Tail(order), g, h, done, check)
             ELSE IF a.raised
             THEN [heap |-> a.heap, attached |-> Append(done, name), raised |-> TRUE]
             ELSE AttachSkippingUngrouped(Tail(order), g, a.heap, Append(done, name), check)

\* Mutant of AttachTopLevel: the depth of a group is not looked at.
RECURSIVE AttachEveryGroup(_, _, _, _, _)
AttachEveryGroup(order, g, h, done, check) ==
    IF order = <<>> THEN [heap |-> h, attached |-> done, raised |-> FALSE]
    ELSE LET name == Head(order)
             a == add_child_group(h, g[all], g[name], check)
         IN  IF name = all THEN AttachEveryGroup(Tail(order), g, h, done, check)
             ELSE IF a.raised
             THEN [heap |-> a.heap, attached |-> Append(done, name), raised |-> TRUE]
             ELSE AttachEveryGroup(Tail(order), g, a.heap, Append(done, name), check)

\* Lines 62-64 over the groups in the order `order`: the loop stops at the
\* first exception.
RECURSIVE AttachTopLevel(_, _, _, _, _)
AttachTopLevel(order, g, h, done, check) ==
    IF order = <<>> THEN [heap |-> h, attached |-> done, raised |-> FALSE]
    ELSE LET name == Head(order)
             id == g[name]
         IN  IF depth(h, id) = 0 /\ name # all
             THEN LET a == add_child_group(h, g[all], id, check)
                  IN  IF a.raised
                      THEN [heap |-> a.heap, attached |-> Append(done, name), raised |-> TRUE]
                      ELSE AttachTopLevel(Tail(order), g, a.heap, Append(done, name), check)
             ELSE AttachTopLevel(Tail(order), g, h, done, check)

\* The orders in which a dict can hand out its entries.
Orders(S) ==
    {f \in [1..Cardinality(S) -> S] : \A x, y \in DOMAIN f : f[x] = f[y] => x = y}

\* Lines 59-64.
Finalize ==
    /\ pc = "finalize"
    /\ \E order \in Orders(DOMAIN groups) :
           LET r == AttachTopLevel(order, groups, heap, <<>>, strict)
           IN  /\ heap' = r.heap
               /\ attached' = r.attached
               /\ IF r.raised
                  THEN Raise(Exception("CycleError", 64, "", 0, "", <<>>,
                                       r.attached[Len(r.attached)], all))
                  ELSE pc' = "done" /\ UNCHANGED error
    /\ UNCHANGED <<value, coerced, lines, i, section, state, groups, pending_declaration, strict>>

Next ==
    \/ SkipLine
    \/ SectionHeader
    \/ HostDefinition
    \/ VariableDefinition
    \/ ChildGroup
    \/ UnknownDefinition
    \/ EndOfScan
    \/ Finalize

Spec == Init /\ [][Next]_vars

\* The same construction on the files of FilesMalformed.
InitMalformed ==
    /\ lines \in FilesMalformed
    /\ Constructed

SpecMalformed == InitMalformed /\ [][Next]_vars

\* ------------------------------------------------------------------ types

TypeOK ==
    /\ i \in 0..Len(lines)
    /\ state \in {"", "vars", "children", None}
    /\ pc \in {"scan", "finalize", "done", "raised"}
    /\ Range(groups) = 1..Len(heap)
    /\ \A n \in DOMAIN groups : heap[groups[n]].name = n


\* ------------------------------------------------------------------ claims

\* The scan reached the end of the file: _parse is at or past line 156.
ScanCompleted ==
    \/ pc \in {"finalize", "done"}
    \/ pc = "raised" /\ error.at \in {157, 158, 160, 64}

\* Line l is a header that declares group g: [g] or [g:children].
DeclaresGroup(l, g) ==
    /\ patterns_section(l).matched
    /\ patterns_section(l).section = g
    /\ patterns_section(l).state # "vars"

\* Group g is pending since a line of kind `kind`, and a later line of the
\* file is its declaring header.
DeclaredAfterReference(g, kind) ==
    /\ g \in DOMAIN pending_declaration
    /\ pending_declaration[g].state = kind
    /\ \E k \in (pending_declaration[g].line + 1)..Len(lines) :
           DeclaresGroup(lines[k], g)

\* Group g is pending since a line of kind `kind`, it is the only pending
\* group, and no line of the file is its declaring header.
NeverDeclared(g, kind) ==
    /\ DOMAIN pending_declaration = {g}
    /\ pending_declaration[g].state = kind
    /\ \A k \in 1..Len(lines) : ~DeclaresGroup(lines[k], g)

\* C1: a group first named by a line of a [p:children] section and declared
\* by a later [child] or [child:children] header is not pending when the
\* scan has ended (so that the pending check has nothing to report for it).
C1_ForwardChildResolved ==
    ScanCompleted =>
        \A g \in DOMAIN pending_declaration : ~DeclaredAfterReference(g, "children")

\* C2: a group whose first appearance is a [g:vars] header and which a later
\* [g] or [g:children] header declares is not pending when the scan has ended.
C2_ForwardVarsResolved ==
    ScanCompleted =>
        \A g \in DOMAIN pending_declaration : ~DeclaredAfterReference(g, "vars")

\* C3: when the scan ends with g pending since its [g:vars] header and no
\* [g] or [g:children] header in the file, the construction ends in the
\* AnsibleError "Can't define variables for undefined group", with the file
\* name, the line number of that header and the name g.
C3_UndefinedVarsGroupError ==
    \A g \in DOMAIN pending_declaration :
        (pc \in {"done", "raised"} /\ ScanCompleted /\ NeverDeclared(g, "vars")) =>
            /\ pc = "raised"
            /\ error.type = "AnsibleError"
            /\ error.file = filename
            /\ error.line = pending_declaration[g].line
            /\ patterns_section(lines[error.line]).section = g
            /\ error.name = g

\* C4: when the scan ends with child pending since a line of a [p:children]
\* section and no [child] or [child:children] header in the file, the
\* construction ends in the AnsibleError "Can't include undefined group",
\* with the file name, the line number of that line, the child and p.
C4_UndefinedChildGroupError ==
    \A g \in DOMAIN pending_declaration :
        (pc \in {"done", "raised"} /\ ScanCompleted /\ NeverDeclared(g, "children")) =>
            /\ pc = "raised"
            /\ error.type = "AnsibleError"
            /\ error.file = filename
            /\ error.line = pending_declaration[g].line
            /\ patterns_groupname(lines[error.line]).name = g
            /\ error.name = g
            /\ error.parent = pending_declaration[g].parent


\* The characters of a literal host name, among those the inputs use.
HostChars == {"a", "b", "k", "1"}

\* Line l is one literal host name and the newline.
IsHostLine(l) ==
    /\ Len(l) >= 2
    /\ l[Len(l)] = "\n"
    /\ \A k \in 1..(Len(l) - 1) : l[k] \in HostChars

\* The step handles a line that is no blank, comment or header while the
\* section kind is plain: '' before any header, None after a [name] header.
PlainLineStep ==
    /\ Definition
    /\ state \in {"", None}
    /\ i' = i + 1

\* C5: a literal host name scanned in a plain section, the implicit
\* 'ungrouped' one or one opened by [name], raises no error and leaves the
\* host a member of the current section's group.
C5_HostLinesPopulateSection ==
    [][(PlainLineStep /\ IsHostLine(line)) =>
          /\ pc' = "scan"
          /\ error' = NoError
          /\ SubSeq(line, 1, Len(line) - 1) \in Range(heap'[groups'[section']].hosts)]_vars

\* The step handles a line holding '=' in a :vars section.
VarsLineStep ==
    /\ Definition
    /\ state = "vars"
    /\ "=" \in Range(line)
    /\ i' = i + 1

\* C6: a line holding '=' scanned in a :vars section raises no error and
\* leaves the current section's group mapping the stripped key to the
\* coerced value.
C6_VarLinesPopulateSection ==
    [][VarsLineStep =>
          LET kv == parse_variable_definition(line)
              gv == heap'[groups'[section']].vars
          IN  /\ pc' = "scan"
              /\ error' = NoError
              /\ kv.k \in DOMAIN gv
              /\ gv[kv.k] = kv.v]_vars


\* An empty file was parsed and the model returned.
C7_Witness == pc = "done" /\ lines = <<>> /\ attached = <<ungrouped>>

\* C7: 'all' and 'ungrouped' are registered in every state, and no step
\* puts another object in their place.
C7_DefaultGroupsExist ==
    /\ [](/\ {all, ungrouped} \subseteq DOMAIN groups
          /\ heap[groups[all]].name = all
          /\ heap[groups[ungrouped]].name = ungrouped)
    /\ [][/\ groups'[all] = groups[all]
          /\ groups'[ungrouped] = groups[ungrouped]]_vars

Count(seq, x) == Cardinality({k \in DOMAIN seq : seq[k] = x})

\* A model was returned in which finalization attached one group and left
\* alone another, which had a parent when the scan ended.
C8_Witness ==
    /\ pc = "done"
    /\ \E n \in DOMAIN groups \ {all, ungrouped} : n \in Range(attached)
    /\ \E n \in DOMAIN groups \ {all} :
           /\ n \notin Range(attached)
           /\ groups[all] \notin Range(heap[groups[n]].parent_groups)

\* C8: when the construction completes, each group other than 'all' that had
\* depth 0 at the end of the scan is a child of 'all', on one edge set by one
\* call of finalization, and finalization made no call for a group that had a
\* parent at the end of the scan.
C8_TopLevelAttachment ==
    [][(pc = "finalize" /\ pc' = "done") =>
          \A n \in DOMAIN groups \ {all} :
              IF depth(heap, groups[n]) = 0
              THEN /\ Count(heap'[groups[all]].child_groups, groups[n]) = 1
                   /\ Count(heap'[groups[n]].parent_groups, groups[all]) = 1
                   /\ Count(attached', n) = 1
              ELSE Count(attached', n) = 0]_vars

IsPrefix(a, b) == Len(a) <= Len(b) /\ SubSeq(b, 1, Len(a)) = a

\* Every name is registered to the one object of that name.
OneGroupPerName ==
    /\ \A n \in DOMAIN groups : heap[groups[n]].name = n
    /\ \A x, y \in 1..Len(heap) : heap[x].name = heap[y].name => x = y

\* The step handles a header that names a registered group.
RedeclareStep ==
    /\ Scanning
    /\ ~Skipped(line)
    /\ patterns_section(line).matched
    /\ patterns_section(line).section \in DOMAIN groups
    /\ i' = i + 1

\* A group got a child under one header, was named by a second header and
\* got another child under that one.
C9_Witness ==
    /\ pc = "scan"
    /\ \E j, k \in 1..i :
           /\ j < k
           /\ k < i
           /\ patterns_section(lines[j]).matched
           /\ patterns_section(lines[k]).matched
           /\ patterns_section(lines[j]).section = patterns_section(lines[k]).section
           /\ \A m \in (j + 1)..(k - 1) : ~patterns_section(lines[m]).matched
           /\ k - j >= 2
           /\ Len(heap[groups[patterns_section(lines[k]).section]].child_groups) >= 2

\* C9: the registry holds one group per name; no step replaces a registered
\* group's object or takes away a child, host or variable it has; and a
\* header naming a registered group creates no object and raises nothing.
C9_RedeclarationIdempotent ==
    /\ []OneGroupPerName
    /\ [][/\ \A n \in DOMAIN groups :
                /\ n \in DOMAIN groups'
                /\ groups'[n] = groups[n]
                /\ IsPrefix(heap[groups[n]].child_groups, heap'[groups[n]].child_groups)
                /\ IsPrefix(heap[groups[n]].hosts, heap'[groups[n]].hosts)
                /\ DOMAIN heap[groups[n]].vars \subseteq DOMAIN heap'[groups[n]].vars
          /\ RedeclareStep =>
                /\ Len(heap') = Len(heap)
                /\ pc' = "scan"
                /\ error' = NoError]_vars

\* An exception left the scan with lines of the file still unread.
C10_Witness == pc = "raised" /\ error.at \notin {157, 64} /\ i < Len(lines)

\* C10: once an exception is raised nothing changes any more: no further
\* line is handled, the pending check and the finalization do not run and no
\* model is returned; an error of the scan is raised with the line counter
\* at the line it names and with nothing attached to 'all'.
C10_ErrorsHalt ==
    /\ [](error # NoError =>
            /\ pc = "raised"
            /\ error.type = "AnsibleError" => error.line = i
            /\ error.at # 64 => attached = <<>>)
    /\ [][error # NoError => UNCHANGED vars]_vars


\* ------------------------------------------------------------------ _parse_value

\* Longest value text drawn from ValueChars.
MaxValueLen == 3

ValueChars == {"4", "2", "#", "e", "'"}

TextTrue == <<"T", "r", "u", "e">>
TextFalse == <<"F", "a", "l", "s", "e">>
TextLowerTrue == <<"t", "r", "u", "e">>
TextHelloTail == <<"h", "e", "l", "l", "o", "#", "t", "a", "i", "l">>

\* The stripped right-hand sides of key=value lines handed to _parse_value.
ValueTexts ==
    (SeqsUpTo(ValueChars, MaxValueLen) \ {<<>>})
        \cup {<<>>, TextTrue, TextFalse, TextLowerTrue, TextHelloTail}

\* The state before a call _parse_value(v); the parser's own state is as
\* constructed and takes no step.
InitValue ==
    /\ value \in ValueTexts
    /\ coerced = NotCoerced
    /\ lines = <<>>
    /\ strict = FALSE
    /\ i = 0
    /\ section = ungrouped
    /\ state = ""
    /\ groups = InitGroups
    /\ heap = InitHeap
    /\ pending_declaration = <<>>
    /\ attached = <<>>
    /\ pc = "scan"
    /\ error = NoError

\* One call of _parse_value (201-214); to_unicode hands a non-string
\* through and leaves text as text.
ParseValue ==
    /\ coerced = NotCoerced
    /\ coerced' = parse_value(value)
    /\ UNCHANGED <<value, lines, i, section, state, groups, heap,
                   pending_declaration, strict, attached, pc, error>>

NextValue == ParseValue

SpecValue == InitValue /\ [][NextValue]_vars

Returned == coerced # NotCoerced

IsDecimal(s) == s # <<>> /\ \A k \in 1..Len(s) : s[k] \in {"4", "2"}

Mismatch(l, st) ==
    \/ st = "vars" /\ "=" \notin Range(l)
    \/ st = "children" /\ ~patterns_groupname(l).matched
    \/ st \in {"", None} /\ (l[1] \in Whitespace \/ l[1] = "[")

\* The construct named by the message of exception e.
ExpectedConstruct(e) ==
    IF e.msg = "Expected host definition, got" THEN "host definition"
    ELSE IF e.msg = "Expected key=value, got" THEN "key=value"
    ELSE IF e.msg = "Expected group name, got" THEN "group name"
    ELSE e.expected

\* e is the parser's error for line number n with text l.
IsParseError(e, n, l) ==
    /\ e.type = "AnsibleError"
    /\ e.file = filename
    /\ e.line = n
    /\ e.text = l
    /\ ExpectedConstruct(e) # ""

\* C11: in every section kind, a line that does not match the construct of
\* the kind raises the parser's error with the file name, the line's number,
\* its text and the name of the expected construct.
C11_GrammarErrorsLocated ==
    [][(Definition /\ Mismatch(line, state)) =>
          /\ pc' = "raised"
          /\ IsParseError(error', i + 1, line)]_vars

\* Line l is bracketed like a header and is none: its tag is not supported.
UnsupportedHeader(l) == startswith(l, <<"[">>) /\ ~patterns_section(l).matched

\* C12: a bracketed line with an unsupported tag raises the parser's error
\* for its line in every section kind, and changes neither the current
\* section nor the registries.
C12_UnsupportedKindRejected ==
    [][(Scanning /\ UnsupportedHeader(line)) =>
          /\ pc' = "raised"
          /\ IsParseError(error', i + 1, line)
          /\ UNCHANGED <<section, state, groups, heap, pending_declaration>>]_vars

\* The smallest line number noted in the pending registry pd.
FirstPendingLine(pd) ==
    CHOOSE n \in {pd[g].line : g \in DOMAIN pd} :
        \A g \in DOMAIN pd : n <= pd[g].line

\* C13: when the scan ends with two or more groups pending, the
\* construction ends in the one AnsibleError for the entry with the smallest
\* line number, in the message form of that entry's kind.
C13_FirstPendingReported ==
    (pc \in {"done", "raised"} /\ ScanCompleted
        /\ Cardinality(DOMAIN pending_declaration) >= 2) =>
        /\ pc = "raised"
        /\ error.type = "AnsibleError"
        /\ error.line = FirstPendingLine(pending_declaration)
        /\ \E g \in DOMAIN pending_declaration :
               /\ pending_declaration[g].line = error.line
               /\ error.name = g
               /\ error.at = (IF pending_declaration[g].state = "vars" THEN 158 ELSE 160)

\* Line l is blank (nothing but whitespace) or a comment.
BlankOrComment(l) ==
    strip(l) = <<>> \/ startswith(l, <<";">>) \/ startswith(l, <<"#">>)

\* C16: a blank line, one holding only whitespace included, or a comment
\* line raises nothing in any section kind and changes nothing but the line
\* counter.
C16_SkippedLinesNoEffect ==
    [][(Scanning /\ BlankOrComment(line)) =>
          /\ i' = i + 1
          /\ UNCHANGED <<lines, section, state, groups, heap, pending_declaration,
                         strict, attached, pc, error>>]_vars


\* ------------------------------------------------------------------ determinism

\* Heaps h1 and h2 hold the same groups with the same fields, but for the
\* order of the children of 'all'.
SameButOrderUnderAll(h1, h2) ==
    /\ Len(h1) = Len(h2)
    /\ \A id \in 1..Len(h1) :
           /\ h1[id].name = h2[id].name
           /\ h1[id].parent_groups = h2[id].parent_groups
           /\ h1[id].vars = h2[id].vars
           /\ h1[id].hosts = h2[id].hosts
           /\ Range(h1[id].child_groups) = Range(h2[id].child_groups)
           /\ Len(h1[id].child_groups) = Len(h2[id].child_groups)
           /\ h1[id].name # all => h1[id].child_groups = h2[id].child_groups

\* C15 as stated: whatever order the registry hands out its groups in, the
\* finalization ends in the same model, the order of the children of 'all'
\* included.
C15_SameModelEveryRun ==
    [][pc = "finalize" =>
          \A order \in Orders(DOMAIN groups) :
              LET r == AttachTopLevel(order, groups, heap, <<>>, strict)
              IN  /\ r.raised <=> pc' = "raised"
                  /\ ~r.raised => (r.heap = heap' /\ r.attached = attached')]_vars

\* A model was returned in which finalization attached two groups.
C15_Witness == pc = "done" /\ Len(attached) >= 2

\* C15 amended: whatever order the registry hands out its groups in, the
\* finalization ends in the same outcome and in the same registry, edges,
\* hosts and variables; only the order of the children of 'all' follows the
\* order of the registry.
C15_SameModelButOrder ==
    [][pc = "finalize" =>
          \A order \in Orders(DOMAIN groups) :
              LET r == AttachTopLevel(order, groups, heap, <<>>, strict)
              IN  /\ r.raised <=> pc' = "raised"
                  /\ ~r.raised =>
                        /\ SameButOrderUnderAll(r.heap, heap')
                        /\ Range(r.attached) = Range(attached')
                        /\ Len(r.attached) = Len(attached')]_vars

\* ------------------------------------------------------------------ child lines

\* The step handles a line of a :children section that names a group.
ChildLineStep ==
    /\ Definition
    /\ state = "children"
    /\ patterns_groupname(line).matched

\* Adding c as a child of p would close a cycle, and the strict setting
\* refuses it.
Refused(c, p) ==
    /\ strict
    /\ c \in DOMAIN groups
    /\ groups[c] \notin Range(heap[groups[p]].child_groups)
    /\ (c = p \/ groups[c] \in Ancestors(heap, groups[p]))

\* What a child line does to the pending registry: a group not registered
\* before is entered with this line, and nothing else changes.
PendingAfterChildLine(c) ==
    IF c \in DOMAIN groups
    THEN pending_declaration' = pending_declaration
    ELSE /\ DOMAIN pending_declaration' = DOMAIN pending_declaration \cup {c}
         /\ pending_declaration'[c] =
                [line |-> i + 1, state |-> "children", name |-> c, parent |-> section]
         /\ \A g \in DOMAIN pending_declaration :
                pending_declaration'[g] = pending_declaration[g]

\* C17 as stated: after a child line naming c in [p:children], c is
\* registered and a child of p, and c is pending exactly when it was not
\* registered before.
C17_ChildEdgeAlways ==
    [][ChildLineStep =>
          LET c == patterns_groupname(line).name
          IN  /\ c \in DOMAIN groups'
              /\ groups'[c] \in Range(heap'[groups'[section]].child_groups)
              /\ PendingAfterChildLine(c)]_vars

\* A child line named a group that was registered before: it is a child of
\* the section's group and is not pending.
C17_Witness ==
    /\ pc = "scan"
    /\ state = "children"
    /\ i >= 2
    /\ patterns_groupname(lines[i]).matched
    /\ ~patterns_section(lines[i]).matched
    /\ ~Skipped(lines[i])
    /\ patterns_groupname(lines[i]).name \notin DOMAIN pending_declaration
    /\ groups[patterns_groupname(lines[i]).name]
           \in Range(heap[groups[section]].child_groups)

\* C17 amended: after a child line naming c in [p:children], c is
\* registered, and pending with this line's number and p exactly when it was
\* not registered before, other entries untouched; c is a child of p, unless
\* the edge would close a cycle and the strict setting refuses it, in which
\* case the line raises the cycle error and adds no edge.
C17_ChildEdgeUnlessRefused ==
    [][ChildLineStep =>
          LET c == patterns_groupname(line).name
          IN  /\ c \in DOMAIN groups'
              /\ \A n \in DOMAIN groups : groups'[n] = groups[n]
              /\ PendingAfterChildLine(c)
              /\ IF Refused(c, section)
                 THEN /\ pc' = "raised"
                      /\ error'.type = "CycleError"
                      /\ groups'[c] \notin Range(heap'[groups'[section]].child_groups)
                 ELSE /\ pc' = "scan"
                      /\ Count(heap'[groups'[section]].child_groups, groups'[c]) = 1
                      /\ groups'[section] \in Range(heap'[groups'[c]].parent_groups)]_vars

\* ------------------------------------------------------------------ cycles

\* No group is its own ancestor.
Acyclic == \A id \in 1..Len(heap) : id \notin Ancestors(heap, id)

\* C18 as stated: in every state no group is its own ancestor.
C18_NoCycles == \A id \in 1..Len(heap) : id \notin Ancestors(heap, id)

\* Under the strict setting a child line that would close a cycle was
\* refused.
C18_Witness == strict /\ pc = "raised" /\ error.type = "CycleError" /\ error.at = 145

\* C18 amended: under the strict setting of add_child_group a :children
\* line that would close a cycle raises the cycle error and no group is ever
\* its own ancestor; the parser itself makes no such test.
C18_NoCyclesWhenStrict ==
    /\ [](strict => Acyclic)
    /\ [][(ChildLineStep /\ Refused(patterns_groupname(line).name, section)) =>
              /\ pc' = "raised"
              /\ error'.type = "CycleError"
              /\ \A id \in 1..Len(heap) :
                     /\ heap'[id].child_groups = heap[id].child_groups
                     /\ heap'[id].parent_groups = heap[id].parent_groups]_vars

\* ------------------------------------------------------------------ current section

\* The scan is right after a header that registered its group.
C19_Witness ==
    /\ pc = "scan"
    /\ i >= 1
    /\ patterns_section(lines[i]).matched
    /\ ~Skipped(lines[i])
    /\ section \notin {all, ungrouped}
    /\ groups[section] = Len(heap)

\* C19: the current section is a key of the registry in every state, and
\* the object registered under it has that name.
C19_SectionRegistered ==
    /\ section \in DOMAIN groups
    /\ heap[groups[section]].name = section

\* ------------------------------------------------------------------ root

\* 'all' has no parent and every other group is below it.
AllIsRoot ==
    /\ heap[groups[all]].parent_groups = <<>>
    /\ \A id \in 1..Len(heap) : id = groups[all] \/ groups[all] \in Ancestors(heap, id)

\* C20 as stated: in every returned model 'all' is the root.
C20_AllIsRoot == pc = "done" => AllIsRoot

\* A model without cycles was returned in which a group is below 'all'
\* through another group only.
C20_Witness ==
    /\ pc = "done"
    /\ Acyclic
    /\ \E id \in 1..Len(heap) :
           /\ id # groups[all]
           /\ groups[all] \notin Range(heap[id].parent_groups)

\* C20 amended: in every returned model without a cycle (every returned
\* model under the strict setting) 'all' has no parent and every other
\* group is reachable from it.
C20_AllIsRootUnlessCycle ==
    /\ (pc = "done" /\ Acyclic) => AllIsRoot
    /\ (pc = "done" /\ strict) => Acyclic

====
